---- MODULE Spec2Model ----
(***************************************************************************)
(* Model of config_parser.py: the Lark grammar GRAMMAR (as the parse it    *)
(* yields for a document), the bottom-up ConfigTransformer, and            *)
(* parse_config.                                                           *)
(*                                                                         *)
(* A document is given in its surface form (numbers, names, parenthesised  *)
(* forms, .[ ]. expressions, operator chains).  The rule_* operators turn  *)
(* it into the tree Lark's Earley parser builds; the callbacks of          *)
(* ConfigTransformer are then applied bottom-up, children left to right,   *)
(* one top-level statement per step.                                       *)
(*                                                                         *)
(* Python values: int is an unbounded integer, float is modelled as an     *)
(* exact rational n/d in lowest terms (d > 0), list is a sequence.         *)
(***************************************************************************)
EXTENDS Integers, Sequences, FiniteSets, TLC

VARIABLES
    text,        \* parse_config's input_text, in surface form
    tree,        \* parser.parse(input_text): the children of the start node
    phase,       \* "idle" | "transform" | "returned" | "raised"
    idx,         \* index of the next statement subtree the transformer visits
    constants,   \* ConfigTransformer.constants
    results,     \* ConfigTransformer.results
    outcome,     \* what parse_config returned or raised
    earlier      \* history: names bound by `def` in earlier parse_config calls

vars == <<text, tree, phase, idx, constants, results, outcome, earlier>>

-----------------------------------------------------------------------------
(* Bounds of the model *)

MaxStmts == 3       \* statements per document, general documents
MaxNum == 2         \* numerals 0..MaxNum inside .[ ]. expressions
MaxCallStmts == 2   \* statements per document when parse_config is called repeatedly

Names == {"x", "y"}
Ops == {"+", "-", "*", "/"}

-----------------------------------------------------------------------------
(* Python values *)

RECURSIVE GCD(_, _)
GCD(a, b) == IF b = 0 THEN a ELSE GCD(b, a % b)

Abs(i) == IF i < 0 THEN -i ELSE i

PyInt(i) == [k |-> "int", n |-> i]

\* the float n/d, d # 0, in lowest terms with a positive denominator
PyFloat(n, d) ==
    LET g == GCD(Abs(n), Abs(d))
        s == IF d < 0 THEN -1 ELSE 1
    IN  [k |-> "float", n |-> s * (n \div g), d |-> s * (d \div g)]

PyList(items) == [k |-> "list", e |-> items]

None == [k |-> "None"]

IsNumber(v) == v.k \in {"int", "float"}
IsList(v) == v.k = "list"

Numer(v) == v.n
Denom(v) == IF v.k = "float" THEN v.d ELSE 1

\* a number built from the rational n/d: int when both operands were int
Number(isInt, n, d) == IF isInt THEN PyInt(n) ELSE PyFloat(n, d)

\* an exception raised inside a callback; parse_config re-raises it as
\* ValueError with the original message inside
Raise(msg, name) == [k |-> "error", msg |-> msg, name |-> name]
IsError(v) == v.k = "error"

TypeError == Raise("TypeError", "")

RECURSIVE Repeat(_, _)
Repeat(s, n) == IF n <= 0 THEN <<>> ELSE s \o Repeat(s, n - 1)

\* Python's ==0 test on a value: true for 0 and 0.0, false for a list
EqualsZero(v) == IsNumber(v) /\ Numer(v) = 0

\* left + right
PyAdd(l, r) ==
    IF IsNumber(l) /\ IsNumber(r)
    THEN Number(l.k = "int" /\ r.k = "int",
                Numer(l) * Denom(r) + Numer(r) * Denom(l), Denom(l) * Denom(r))
    ELSE IF IsList(l) /\ IsList(r) THEN PyList(l.e \o r.e)
    ELSE TypeError

\* left - right
PySub(l, r) ==
    IF IsNumber(l) /\ IsNumber(r)
    THEN Number(l.k = "int" /\ r.k = "int",
                Numer(l) * Denom(r) - Numer(r) * Denom(l), Denom(l) * Denom(r))
    ELSE TypeError

\* left * right
PyMul(l, r) ==
    IF IsNumber(l) /\ IsNumber(r)
    THEN Number(l.k = "int" /\ r.k = "int",
                Numer(l) * Numer(r), Denom(l) * Denom(r))
    ELSE IF IsList(l) /\ r.k = "int" THEN PyList(Repeat(l.e, r.n))
    ELSE IF l.k = "int" /\ IsList(r) THEN PyList(Repeat(r.e, l.n))
    ELSE TypeError

\* left / right: true division, always a float; Python's own
\* ZeroDivisionError for a zero divisor
PyTrueDiv(l, r) ==
    IF IsNumber(l) /\ IsNumber(r)
    THEN IF Numer(r) = 0 THEN Raise("ZeroDivisionError", "")
         ELSE PyFloat(Numer(l) * Denom(r), Denom(l) * Numer(r))
    ELSE TypeError

-----------------------------------------------------------------------------
(* Surface forms of a document: what the text says, before the grammar     *)
(* decides what a parenthesised form is.                                   *)

\* a numeral: the digits of n, followed by ".0" when dot
SNum(n, dot) == [k |-> "num", lex |-> [n |-> n, dot |-> dot]]
SName(s) == [k |-> "name", s |-> s]
\* "(" item "," ... "," item ")"
SParen(items) == [k |-> "paren", items |-> items]
\* ".[" e "]."
SCExpr(e) == [k |-> "cexpr", e |-> e]
\* "len" "(" e ")"
SLen(e) == [k |-> "len", e |-> e]
\* args[1] ops[1] args[2] ... ops[n-1] args[n], n >= 2
SChain(args, ops) == [k |-> "chain", args |-> args, ops |-> ops]
\* "def" s "=" v
SDef(s, v) == [k |-> "def", s |-> s, v |-> v]

-----------------------------------------------------------------------------
(* Lark trees and tokens *)

Tree(data, children) == [k |-> "tree", data |-> data, children |-> children]
Token(type, str) == [k |-> type, str |-> str]

IsToken(item) == item.k \in {"NUMBER", "NAME"}

\* whether the text s can be derived from the rule `value`
RECURSIVE IsValue(_)
IsValue(s) ==
    CASE s.k \in {"num", "name"} -> TRUE
      [] s.k = "paren" -> \A i \in 1..Len(s.items) : IsValue(s.items[i])
      [] s.k = "cexpr" -> TRUE
      [] OTHER -> FALSE

-----------------------------------------------------------------------------
(* GRAMMAR: the tree the Earley parser returns.  Where two alternatives of *)
(* a rule derive the same text, Lark (ambiguity="resolve", no priorities)  *)
(* keeps the alternative written first in the rule.                        *)

RECURSIVE rule_value(_), rule_array(_), rule_const_expr(_), rule_expr(_),
          rule_term(_, _), rule_factor(_, _), rule_atom(_)

\* value: NUMBER | array | const_expr | NAME
rule_value(s) ==
    CASE s.k = "num" -> Tree("value", <<Token("NUMBER", s.lex)>>)
      [] s.k = "paren" -> Tree("value", <<rule_array(s)>>)
      [] s.k = "cexpr" -> Tree("value", <<rule_const_expr(s)>>)
      [] s.k = "name" -> Tree("value", <<Token("NAME", s.s)>>)

\* array: "(" ")" | "(" value ("," value)* ")"
rule_array(s) ==
    Tree("array", [i \in 1..Len(s.items) |-> rule_value(s.items[i])])

\* const_expr: ".[" expr "]."
rule_const_expr(s) == Tree("const_expr", <<rule_expr(s.e)>>)

\* ?expr: term
rule_expr(s) ==
    IF s.k = "chain" THEN rule_term(s.args, s.ops) ELSE rule_atom(s)

\* the last position of ops holding an operator of the set, 0 if none
LastOp(ops, set) ==
    LET at == {i \in 1..Len(ops) : ops[i] \in set}
    IN  IF at = {} THEN 0 ELSE CHOOSE i \in at : \A j \in at : j <= i

\* a faulty rule_term: one precedence level for all four operators
rule_term_flat(args, ops) ==
    LET i == Len(ops)
    IN  IF i = 0 THEN rule_atom(args[1])
        ELSE Tree(CASE ops[i] = "+" -> "add" [] ops[i] = "-" -> "sub"
                    [] ops[i] = "*" -> "mul" [] ops[i] = "/" -> "div",
                  <<rule_term(SubSeq(args, 1, i), SubSeq(ops, 1, i - 1)),
                    rule_atom(args[i + 1])>>)

\* ?term: term "+" factor -> add | term "-" factor -> sub | factor
rule_term(args, ops) ==
    LET i == LastOp(ops, {"+", "-"})
    IN  IF i = 0 THEN rule_factor(args, ops)
        ELSE Tree(IF ops[i] = "+" THEN "add" ELSE "sub",
                  <<rule_term(SubSeq(args, 1, i), SubSeq(ops, 1, i - 1)),
                    rule_factor(SubSeq(args, i + 1, Len(args)),
                                SubSeq(ops, i + 1, Len(ops)))>>)

\* ?factor: factor "*" power -> mul | factor "/" power -> div | power
\* ?power: atom
rule_factor(args, ops) ==
    LET i == Len(ops)
    IN  IF i = 0 THEN rule_atom(args[1])
        ELSE Tree(IF ops[i] = "*" THEN "mul" ELSE "div",
                  <<rule_factor(SubSeq(args, 1, i), SubSeq(ops, 1, i - 1)),
                    rule_atom(args[i + 1])>>)

\* ?atom: "len" "(" expr ")" -> len_func | array | "(" expr ")" | NUMBER | NAME
\* A parenthesised form that is an array is read by the alternative `array`,
\* which precedes "(" expr ")".
rule_atom(s) ==
    CASE s.k = "len" -> Tree("len_func", <<rule_expr(s.e)>>)
      [] s.k = "paren" ->
            IF IsValue(s) THEN rule_array(s) ELSE rule_expr(s.items[1])
      [] s.k = "num" -> Token("NUMBER", s.lex)
      [] s.k = "name" -> Token("NAME", s.s)

\* constant_def: "def" NAME "=" value
rule_constant_def(s) ==
    Tree("constant_def", <<Token("NAME", s.s), rule_value(s.v)>>)

\* statement: constant_def | value
rule_statement(s) ==
    IF s.k = "def" THEN Tree("statement", <<rule_constant_def(s)>>)
    ELSE Tree("statement", <<rule_value(s)>>)

\* start: statement*
rule_start(doc) == [i \in 1..Len(doc) |-> rule_statement(doc[i])]

-----------------------------------------------------------------------------
(* ConfigTransformer: the callbacks.  consts is self.constants.            *)

\* def NUMBER(self, token)
NUMBER(token) ==
    IF token.str.dot THEN PyFloat(token.str.n, 1) ELSE PyInt(token.str.n)

\* def NAME(self, token)
NAME(token) == token

\* def _eval_value(self, value)
eval_value(value, consts) ==
    IF IsToken(value)
    THEN IF value.k = "NAME"
         THEN IF value.str \notin DOMAIN consts
              THEN Raise("Undefined constant", value.str)
              ELSE consts[value.str]
         ELSE NUMBER(value)
    ELSE value

\* def value(self, items)
value(items, consts) ==
    LET item == items[1]
    IN  IF IsToken(item) /\ item.k = "NAME"
        THEN IF item.str \notin DOMAIN consts
             THEN Raise("Undefined constant", item.str)
             ELSE consts[item.str]
        ELSE item

\* def array(self, items)
array(items) == PyList(items)

\* def const_expr(self, items)
const_expr(items) == items[1]

\* Python evaluates `a OP b` left operand first; an exception in either
\* operand leaves before OP is applied
Binary(op, l, r) ==
    IF IsError(l) THEN l ELSE IF IsError(r) THEN r
    ELSE CASE op = "+" -> PyAdd(l, r)
           [] op = "-" -> PySub(l, r)
           [] op = "*" -> PyMul(l, r)
           [] op = "/" -> PyTrueDiv(l, r)

\* def add(self, items)
add(items, consts) ==
    Binary("+", eval_value(items[1], consts), eval_value(items[2], consts))

\* def sub(self, items)
sub(items, consts) ==
    Binary("-", eval_value(items[1], consts), eval_value(items[2], consts))

\* def mul(self, items)
mul(items, consts) ==
    Binary("*", eval_value(items[1], consts), eval_value(items[2], consts))

\* a faulty div: no test of the divisor
div_unchecked(items, consts) ==
    Binary("/", eval_value(items[1], consts), eval_value(items[2], consts))

\* def div(self, items)
div(items, consts) ==
    LET rval == eval_value(items[2], consts)
    IN  IF IsError(rval) THEN rval
        ELSE IF EqualsZero(rval) THEN Raise("Division by zero", "")
        ELSE Binary("/", eval_value(items[1], consts), rval)

\* def len_func(self, items)
len_func(items, consts) ==
    LET val == eval_value(items[1], consts)
    IN  IF IsError(val) THEN val
        ELSE IF IsList(val) THEN PyInt(Len(val.e))
        ELSE IF IsNumber(val) THEN PyInt(1)
        ELSE Raise("len() cannot be applied", "")

\* a faulty constant_def: a bound name keeps its first value
constant_def_keep(items, consts) ==
    [n \in DOMAIN consts \cup {items[1].str} |->
        IF n \in DOMAIN consts THEN consts[n] ELSE items[2]]

\* def constant_def(self, items): the table after self.constants[name] = value
constant_def(items, consts) ==
    [n \in DOMAIN consts \cup {items[1].str} |->
        IF n = items[1].str THEN items[2] ELSE consts[n]]

\* a faulty statement: what a definition returns is appended too
statement_all(items, res) ==
    IF Len(items) > 0 THEN Append(res, items[1]) ELSE res

\* def statement(self, items): self.results after the callback
statement(items, res) ==
    IF Len(items) > 0 /\ items[1] # None THEN Append(res, items[1]) ELSE res

\* a faulty start: the list is returned also when it is empty
start_list(res) == PyList(res)

\* def start(self, items)
start(res) == IF res # <<>> THEN PyList(res) ELSE None

\* Transformer._call_userfunc for the callbacks below a statement
CallUserFunc(data, items, consts) ==
    CASE data = "value" -> value(items, consts)
      [] data = "array" -> array(items)
      [] data = "const_expr" -> const_expr(items)
      [] data = "add" -> add(items, consts)
      [] data = "sub" -> sub(items, consts)
      [] data = "mul" -> mul(items, consts)
      [] data = "div" -> div(items, consts)
      [] data = "len_func" -> len_func(items, consts)

\* Transformer._transform_tree / _transform_children: children first, left
\* to right, then the node's callback; the first exception ends the walk.
\* TransformChildren yields the list of transformed children, or the error.
RECURSIVE Transform(_, _), TransformChildren(_, _)
Transform(t, consts) ==
    IF t.k = "NUMBER" THEN NUMBER(t)
    ELSE IF t.k = "NAME" THEN NAME(t)
    ELSE LET c == TransformChildren(t.children, consts)
         IN  IF IsError(c) THEN c ELSE CallUserFunc(t.data, c.e, consts)

TransformChildren(children, consts) ==
    IF children = <<>> THEN PyList(<<>>)
    ELSE LET init == TransformChildren(SubSeq(children, 1, Len(children) - 1), consts)
         IN  IF IsError(init) THEN init
             ELSE LET last == Transform(children[Len(children)], consts)
                  IN  IF IsError(last) THEN last ELSE PyList(Append(init.e, last))

-----------------------------------------------------------------------------
(* Documents handed to parse_config *)

DocNumerals == {1, 2}

\* value statements and definitions of the general documents
DocAtoms == {SNum(n, FALSE) : n \in DocNumerals} \cup {SName(s) : s \in Names}
DocValues == {SNum(1, FALSE), SParen(<<>>)} \cup {SName(s) : s \in Names}
DocStatements == DocValues \cup {SDef(s, v) : s \in Names, v \in DocAtoms}

SeqsUpTo(S, n) == UNION {[1..m -> S] : m \in 0..n}

Documents == SeqsUpTo(DocStatements, MaxStmts)

\* statements of the documents of repeated calls: references, and
\* definitions from a numeral or from x
CallStatements ==
    {SName(s) : s \in Names}
    \cup {SDef(s, v) : s \in Names, v \in {SNum(1, FALSE), SName("x")}}

CallDocuments == SeqsUpTo(CallStatements, MaxCallStmts)

\* operands of the .[ ]. expressions
Numerals == {SNum(n, dot) : n \in 0..MaxNum, dot \in BOOLEAN}
IntNumerals == {SNum(n, FALSE) : n \in 0..MaxNum}
Operands ==
    Numerals
    \cup {SName(s) : s \in Names}
    \cup {SParen(<<>>), SParen(<<SName("x")>>),
          SParen(<<SNum(1, FALSE), SNum(2, FALSE)>>)}
    \cup {SParen(<<a>>) : a \in IntNumerals}
    \cup {SParen(<<SChain(<<SNum(1, FALSE), b>>, <<op>>)>>) :
            b \in {SNum(0, FALSE), SNum(1, FALSE)}, op \in Ops}
    \cup {SLen(SName("x"))}

Expressions ==
    Operands \cup {SChain(<<a, b>>, <<op>>) : a \in Operands, b \in Operands, op \in Ops}

Chains ==
    {SChain(<<a, b, c>>, <<o, p>>) :
        a \in IntNumerals, b \in IntNumerals, c \in IntNumerals, o \in Ops, p \in Ops}

\* what x is bound to before the expression
Prefixes ==
    {<<>>} \cup {<<SDef("x", v)>> :
                    v \in {SNum(0, FALSE), SNum(0, TRUE), SNum(MaxNum, FALSE),
                           SParen(<<SNum(1, FALSE), SNum(2, FALSE)>>)}}

ExprDocuments ==
    {p \o <<SCExpr(e)>> : p \in Prefixes, e \in Expressions}
    \cup {<<SCExpr(e)>> : e \in Chains}

-----------------------------------------------------------------------------
(* parse_config and the transformer's walk over the statements *)

Init ==
    /\ text = <<>>
    /\ tree = <<>>
    /\ phase = "idle"
    /\ idx = 0
    /\ constants = <<>>
    /\ results = <<>>
    /\ outcome = None
    /\ earlier = {}

\* a faulty init_constants: the table is shared between transformers
shared_constants(old) == old

\* ConfigTransformer.__init__: the containers of a new transformer, whatever
\* the previous transformer (old) held
init_constants(old) == <<>>
init_results(old) == <<>>

\* parse_config(input_text) up to the start of transformer.transform(tree):
\* the text is parsed and ConfigTransformer.__init__ makes the two empty
\* containers
parse_config(input_text) ==
    /\ phase # "transform"
    /\ text' = input_text
    /\ tree' = rule_start(input_text)
    /\ constants' = init_constants(constants)
    /\ results' = init_results(results)
    /\ idx' = 1
    /\ phase' = "transform"
    /\ outcome' = None
    /\ earlier' = earlier \cup DOMAIN constants

\* an exception leaves the walk and parse_config, which raises ValueError
Raised(err) ==
    /\ phase' = "raised"
    /\ outcome' = err
    /\ UNCHANGED <<text, tree, idx, constants, results, earlier>>

\* the subtree statement -> constant_def: its value is transformed, then
\* constant_def binds the name and statement sees None
TransformDefinition ==
    /\ phase = "transform"
    /\ idx <= Len(tree)
    /\ tree[idx].children[1].data = "constant_def"
    /\ LET items == TransformChildren(tree[idx].children[1].children, constants)
       IN  IF IsError(items) THEN Raised(items)
           ELSE /\ constants' = constant_def(items.e, constants)
                /\ results' = statement(<<None>>, results)
                /\ idx' = idx + 1
                /\ UNCHANGED <<text, tree, phase, outcome, earlier>>

\* the subtree statement -> value
TransformStatement ==
    /\ phase = "transform"
    /\ idx <= Len(tree)
    /\ tree[idx].children[1].data = "value"
    /\ LET items == TransformChildren(tree[idx].children, constants)
       IN  IF IsError(items) THEN Raised(items)
           ELSE /\ results' = statement(items.e, results)
                /\ idx' = idx + 1
                /\ UNCHANGED <<text, tree, phase, constants, outcome, earlier>>

\* the root callback, and parse_config's return
TransformStart ==
    /\ phase = "transform"
    /\ idx > Len(tree)
    /\ outcome' = start(results)
    /\ phase' = "returned"
    /\ UNCHANGED <<text, tree, idx, constants, results, earlier>>

\* one call of parse_config on a general document
Next ==
    \/ phase = "idle" /\ \E d \in Documents : parse_config(d)
    \/ TransformDefinition
    \/ TransformStatement
    \/ TransformStart

Spec == Init /\ [][Next]_vars

\* one call of parse_config on a document that ends in a .[ ]. expression
NextExpr ==
    \/ phase = "idle" /\ \E d \in ExprDocuments : parse_config(d)
    \/ TransformDefinition
    \/ TransformStatement
    \/ TransformStart

SpecExpr == Init /\ [][NextExpr]_vars

\* parse_config called again and again
NextCalls ==
    \/ phase # "transform" /\ \E d \in CallDocuments : parse_config(d)
    \/ TransformDefinition
    \/ TransformStatement
    \/ TransformStart

SpecCalls == Init /\ [][NextCalls]_vars

-----------------------------------------------------------------------------
(* parse_config as a function of the document alone: the walk above run    *)
(* from a new transformer to its end                                       *)

RECURSIVE RunFrom(_, _, _, _)
RunFrom(t, i, consts, res) ==
    IF i > Len(t) THEN start(res)
    ELSE IF t[i].children[1].data = "constant_def"
    THEN LET items == TransformChildren(t[i].children[1].children, consts)
         IN  IF IsError(items) THEN items
             ELSE RunFrom(t, i + 1, constant_def(items.e, consts),
                          statement(<<None>>, res))
    ELSE LET items == TransformChildren(t[i].children, consts)
         IN  IF IsError(items) THEN items
             ELSE RunFrom(t, i + 1, consts, statement(items.e, res))

RunDocument(doc) == RunFrom(rule_start(doc), 1, <<>>, <<>>)

-----------------------------------------------------------------------------
(* Reading a document by its text, for the statements of the claims *)

Done == phase \in {"returned", "raised"}

IsDef(s) == s.k = "def"

\* the positions before p that define the name n
DefsBefore(doc, p, n) == {j \in 1..(p - 1) : IsDef(doc[j]) /\ doc[j].s = n}

\* the last of them, 0 if there is none
LastDef(doc, p, n) ==
    LET at == DefsBefore(doc, p, n)
    IN  IF at = {} THEN 0 ELSE CHOOSE j \in at : \A i \in at : i <= j

\* the names defined by the statements before p
DefinedBefore(doc, p) == {doc[j].s : j \in {i \in 1..(p - 1) : IsDef(doc[i])}}

\* the number of value statements among the first p statements
ValuesUpTo(doc, p) == Cardinality({i \in 1..p : ~IsDef(doc[i])})

\* what a numeral, a name or an array of these denotes at statement p: a name
\* denotes what the value of its latest definition before p denoted there
RECURSIVE ValueAt(_, _, _)
ValueAt(doc, p, s) ==
    CASE s.k = "num" -> IF s.lex.dot THEN PyFloat(s.lex.n, 1) ELSE PyInt(s.lex.n)
      [] s.k = "name" ->
            LET j == LastDef(doc, p, s.s)
            IN  IF j = 0 THEN Raise("Undefined constant", s.s)
                ELSE ValueAt(doc, j, doc[j].v)
      [] s.k = "paren" -> PyList([i \in 1..Len(s.items) |-> ValueAt(doc, p, s.items[i])])

\* the leftmost numeral or name of a statement, the first thing any
\* left-to-right evaluation reads (an empty array has none: itself)
RECURSIVE FirstLeaf(_)
FirstLeaf(s) ==
    CASE s.k = "def" -> FirstLeaf(s.v)
      [] s.k = "cexpr" -> FirstLeaf(s.e)
      [] s.k = "len" -> FirstLeaf(s.e)
      [] s.k = "chain" -> FirstLeaf(s.args[1])
      [] s.k = "paren" -> IF s.items = <<>> THEN s ELSE FirstLeaf(s.items[1])
      [] OTHER -> s

\* the statement the walk has reached last
Current == IF idx > Len(text) THEN Len(text) ELSE idx

\* the expression of the document's last statement, when it is .[ e ]. and
\* the walk has reached it
AtExpr ==
    /\ Done
    /\ text # <<>>
    /\ idx >= Len(text)
    /\ text[Len(text)].k = "cexpr"

LastExpr == text[Len(text)].e

IsBinary(e) == e.k = "chain" /\ Len(e.ops) = 1

\* a numeral, or a name bound in the transformer's table
IsBoundAtom(s) == s.k = "num" \/ (s.k = "name" /\ s.s \in DOMAIN constants)

AtomValue(s) == eval_value(rule_atom(s), constants)

-----------------------------------------------------------------------------
(* Claims *)

\* C2: binding is eager and redefinition is permitted.  Every bare name
\* statement already walked has put into results what the latest earlier
\* definition of that name denoted where it stood; and a step that walks a
\* definition of n (a first one or a redefinition) never raises for being a
\* redefinition, leaves results as they are and leaves every other
\* constant's value as it is.
C2_ReferencesRead ==
    phase \in {"transform", "returned"} =>
        \A p \in 1..(IF idx > Len(text) THEN Len(text) ELSE idx - 1) :
            text[p].k = "name" =>
                results[ValuesUpTo(text, p)] = ValueAt(text, p, text[p])

C2_DefinitionStep ==
    (phase = "transform" /\ idx <= Len(text) /\ IsDef(text[idx]) /\ idx' = idx + 1) =>
        /\ results' = results
        /\ text[idx].s \in DOMAIN constants'
        /\ constants'[text[idx].s] = ValueAt(text, idx, text[idx].v)
        /\ \A n \in DOMAIN constants \ {text[idx].s} :
                n \in DOMAIN constants' /\ constants'[n] = constants[n]

\* C2: both hold throughout every walk: references read the latest earlier
\* definition, and a definition step changes nothing but its own name.
C2_EagerRedefinition == []C2_ReferencesRead /\ [][C2_DefinitionStep]_vars

\* C2 witness: a name was defined twice with different values and read
\* afterwards, and the returned entry is the second value
C2_Witness ==
    /\ phase = "returned"
    /\ \E i, j, q \in 1..Len(text) :
          /\ i < j /\ j < q
          /\ IsDef(text[i]) /\ IsDef(text[j]) /\ text[i].s = text[j].s
          /\ text[i].v # text[j].v /\ text[i].v.k = "num" /\ text[j].v.k = "num"
          /\ text[q] = SName(text[i].s)
          /\ outcome.e[ValuesUpTo(text, q)] = ValueAt(text, j, text[j].v)

\* C3: a document that returns and has a value statement returns a list
\* with one entry per value statement, in source order, the i-th entry being
\* what the i-th value statement denotes; definitions add no entry.
C3_OneEntryPerValueStatement ==
    (phase = "returned" /\ \E p \in 1..Len(text) : ~IsDef(text[p])) =>
        /\ outcome.k = "list"
        /\ Len(outcome.e) = ValuesUpTo(text, Len(text))
        /\ \A p \in 1..Len(text) :
              ~IsDef(text[p]) =>
                  outcome.e[ValuesUpTo(text, p)] = ValueAt(text, p, text[p])

\* C3 witness: a returned document with a definition between two value
\* statements of different values
C3_Witness ==
    /\ phase = "returned"
    /\ Len(text) = 3
    /\ ~IsDef(text[1]) /\ IsDef(text[2]) /\ ~IsDef(text[3])
    /\ Len(outcome.e) = 2
    /\ outcome.e[1] # outcome.e[2]

\* C4 as stated: parse_config returns None exactly when the document has no
\* top-level statement at all.
C4_NoneIffNoStatement ==
    phase = "returned" => (outcome = None <=> Len(text) = 0)

\* C4 amended: a document that evaluates without error returns None exactly
\* when it has no value statement (it is empty or holds definitions only);
\* with a value statement, `()` included, it returns a non-empty list.
C4_NoneIffNoValueStatement ==
    phase = "returned" =>
        /\ outcome = None <=> (\A p \in 1..Len(text) : IsDef(text[p]))
        /\ outcome # None => (outcome.k = "list" /\ outcome.e # <<>>)

\* C4 witness: a document of definitions only has returned None
C4_Witness ==
    /\ phase = "returned"
    /\ Len(text) > 0
    /\ \A p \in 1..Len(text) : IsDef(text[p])
    /\ outcome = None

\* C9: no constant crosses parse_config calls.  In every call the names in
\* the transformer's table are exactly those defined by the statements of
\* this call's document walked so far, and what the call returns or raises is
\* what parse_config yields for its document alone.
C9_NoStateAcrossCalls ==
    /\ phase # "idle" =>
          DOMAIN constants =
              DefinedBefore(text, IF phase = "raised" THEN idx
                                  ELSE IF idx > Len(text) THEN Len(text) + 1 ELSE idx)
    /\ Done => outcome = RunDocument(text)

\* C9 witness: a later call has failed on a name that an earlier call defined
C9_Witness ==
    /\ phase = "raised"
    /\ outcome.msg = "Undefined constant"
    /\ outcome.name \in earlier

\* C6: a division whose right operand is zero (0 or 0.0, a numeral or a
\* name bound to it) and whose left operand is a numeral or a name bound to
\* any value, array included, fails with "Division by zero"; so does every
\* operator chain over integer numerals with a zero numeral right of a "/".
C6_DivisionByZero ==
    AtExpr =>
        /\ ( /\ IsBinary(LastExpr) /\ LastExpr.ops[1] = "/"
             /\ IsBoundAtom(LastExpr.args[1]) /\ IsBoundAtom(LastExpr.args[2])
             /\ EqualsZero(AtomValue(LastExpr.args[2])) )
           => (phase = "raised" /\ outcome = Raise("Division by zero", ""))
        /\ ( /\ LastExpr \in Chains
             /\ \E i \in 1..Len(LastExpr.ops) :
                    LastExpr.ops[i] = "/" /\ LastExpr.args[i + 1].lex.n = 0 )
           => (phase = "raised" /\ outcome = Raise("Division by zero", ""))

\* C6 witness: x is bound to an array, and x divided by a name-free zero
\* has failed with "Division by zero"
C6_Witness ==
    /\ AtExpr
    /\ IsBinary(LastExpr) /\ LastExpr.ops[1] = "/"
    /\ LastExpr.args[1] = SName("x") /\ "x" \in DOMAIN constants
    /\ IsList(constants["x"])
    /\ LastExpr.args[2] = SNum(0, TRUE)
    /\ outcome = Raise("Division by zero", "")

\* what `l op r` yields for two values
Apply(op, l, r) ==
    IF IsError(l) THEN l ELSE IF IsError(r) THEN r
    ELSE CASE op = "+" -> add(<<l, r>>, <<>>)
           [] op = "-" -> sub(<<l, r>>, <<>>)
           [] op = "*" -> mul(<<l, r>>, <<>>)
           [] op = "/" -> div(<<l, r>>, <<>>)

\* a o (b p c) and (a o b) p c
GroupRight(e) ==
    Apply(e.ops[1], AtomValue(e.args[1]),
          Apply(e.ops[2], AtomValue(e.args[2]), AtomValue(e.args[3])))
GroupLeft(e) ==
    Apply(e.ops[2],
          Apply(e.ops[1], AtomValue(e.args[1]), AtomValue(e.args[2])),
          AtomValue(e.args[3]))

OneResult(v) == IF IsError(v) THEN v ELSE PyList(<<v>>)

\* C8: * and / bind tighter than + and -, equal precedence associates to the
\* left.  A chain a o b p c of integer numerals yields a o (b p c) when p is
\* * or / and o is + or -, and (a o b) p c otherwise.
C8_PrecedenceAndAssociativity ==
    (AtExpr /\ LastExpr \in Chains) =>
        outcome = OneResult(IF LastExpr.ops[2] \in {"*", "/"} /\ LastExpr.ops[1] \in {"+", "-"}
                            THEN GroupRight(LastExpr) ELSE GroupLeft(LastExpr))

\* C8 witness: a chain a + b * c has returned a + (b * c), which differs from
\* (a + b) * c
C8_Witness ==
    /\ AtExpr /\ LastExpr \in Chains
    /\ LastExpr.ops = <<"+", "*">>
    /\ phase = "returned"
    /\ outcome = OneResult(GroupRight(LastExpr))
    /\ GroupRight(LastExpr) # GroupLeft(LastExpr)

\* C1 as stated: a name reference with no definition in a strictly earlier
\* statement makes parse_config fail with "Undefined constant".  Stated for
\* the reference that is the leftmost leaf of the statement the walk has
\* reached, which nothing is evaluated before.
C1_UnboundReferenceFails ==
    (Done /\ text # <<>>) =>
        LET leaf == FirstLeaf(text[Current])
        IN  (leaf.k = "name" /\ DefsBefore(text, Current, leaf.s) = {})
                => (phase = "raised" /\ outcome.msg = "Undefined constant")

\* C10 as stated: when the left operand of a binary operation is an
\* undefined name, the error raised is that name's "Undefined constant",
\* whatever the right operand is.
C10_LeftOperandFirst ==
    (AtExpr /\ IsBinary(LastExpr)) =>
        LET l == LastExpr.args[1]
        IN  (l.k = "name" /\ l.s \notin DOMAIN constants)
                => (phase = "raised" /\ outcome = Raise("Undefined constant", l.s))

\* an operand that is an array however a one-item parenthesised form is
\* read: (), a form with a comma, or a name bound to a list
IsArrayOperand(s) ==
    \/ s.k = "paren" /\ Len(s.items) # 1 /\ IsValue(s)
    \/ s.k = "name" /\ s.s \in DOMAIN constants /\ IsList(constants[s.s])

\* C5 as stated: a binary operation with an Array operand fails with a type
\* mismatch and none produces an Array.  Stated for operations whose other
\* operand is such an array, a numeral or a bound name, and whose divisor
\* is not zero.
C5_ArrayOperandFails ==
    (AtExpr /\ IsBinary(LastExpr)) =>
        LET l == LastExpr.args[1]
            r == LastExpr.args[2]
        IN  ( /\ IsArrayOperand(l) \/ IsArrayOperand(r)
              /\ IsArrayOperand(l) \/ IsBoundAtom(l)
              /\ IsArrayOperand(r) \/ IsBoundAtom(r)
              /\ ~(LastExpr.ops[1] = "/" /\ IsBoundAtom(r) /\ EqualsZero(AtomValue(r))) )
                => (phase = "raised" /\ outcome = TypeError)

\* a one-item parenthesised numeral or name, and the form without the
\* parentheses
IsGroupedAtom(s) ==
    s.k = "paren" /\ Len(s.items) = 1 /\ s.items[1].k \in {"num", "name"}
Ungroup(s) == IF IsGroupedAtom(s) THEN s.items[1] ELSE s
UngroupExpr(e) ==
    IF e.k = "chain" THEN SChain([i \in 1..Len(e.args) |-> Ungroup(e.args[i])], e.ops)
    ELSE Ungroup(e)

\* C7 as stated: inside .[ ]. a parenthesised form without a comma is a
\* grouping, also around a single numeral or name: the document yields what
\* it yields with the parentheses around single numerals and names removed.
C7_GroupingOfSingleOperand ==
    (AtExpr /\ UngroupExpr(LastExpr) # LastExpr) =>
        outcome = RunDocument(SubSeq(text, 1, Len(text) - 1)
                              \o <<SCExpr(UngroupExpr(LastExpr))>>)

====
